---- MODULE Spec2Model ----
(***************************************************************************)
(* InboxGuard: the classification-and-action pipeline.                     *)
(*   model-service/main.py    analyze_email, detect_phishing_batch,        *)
(*                            detect_phishing_upload_file,                 *)
(*                            save_batch_response                          *)
(*   start.py                 save_predictions                             *)
(*   actions-service/main.py  GmailProcessor.load_latest_predictions,      *)
(*                            perform_action, process_email_by_uid,        *)
(*                            process_all_predictions                      *)
(* Text is a sequence of one-character strings.  Probabilities and         *)
(* confidences are in hundredths (70 is 0.7).  A JSON value is a tagged    *)
(* record; a JSON object (a Python dict) is the sequence of its            *)
(* key/value pairs in insertion order.                                     *)
(***************************************************************************)
EXTENDS Integers, Sequences, FiniteSets, TLC

VARIABLES
    model_loaded,      \* the globals 'model' and 'vectorizer' exist
    request,           \* the last request the model service was sent
    response,          \* the last HTTP response of the model service
    files,             \* the responses directory
    now,               \* the wall clock, a tick per request: name stamps and mtimes
    saved,             \* the last call of save_predictions: its argument, what it
                       \* returned and the file it wrote
    loaded_file,       \* the file the last load_latest_predictions selected
    predictions_data,  \* GmailProcessor.predictions_data
    mailbox,           \* the mail store
    before,            \* the mailbox as the last action pass found it
    issued,            \* the commands the last action pass sent, item by item
    results,           \* the result map of the last action pass
    tally,             \* the tally the last action pass logged
    runs,              \* action passes made over predictions_data
    first_run,         \* the first pass over predictions_data: the mailbox it
                       \* found, and the mailbox and results it left
    emails_json,       \* email-service/extracted_emails/emails.json
    extraction,        \* the last run of the extractor: what it met and its exit code
    actions_run,       \* the last run of the action service's main
    driver,            \* the last run of the driver: its stages and its exit code
    folders,           \* the folders (labels) of the mail store
    labels_run,        \* the last run of labels.py: what it met, what it reported
    imap_run           \* the last run of imap_action.py: its target, its commands
                       \* and its exit code

vars == <<model_loaded, request, response, files, now, saved, loaded_file, predictions_data,
          mailbox, before, issued, results, tally, runs, first_run,
          emails_json, extraction, actions_run, driver, folders, labels_run, imap_run>>

-----------------------------------------------------------------------------
(* Bounds *)

MaxBatch == 3

MaxClock == 1

MaxRuns == 2

-----------------------------------------------------------------------------
(* Sequences and text *)

RECURSIVE SeqsUpTo(_, _)
SeqsUpTo(S, n) ==
    IF n = 0 THEN {<<>>}
    ELSE LET shorter == SeqsUpTo(S, n - 1)
         IN  shorter \cup {Append(s, x) : s \in {t \in shorter : Len(t) = n - 1}, x \in S}

Whitespace == {" "}

RECURSIVE lstrip(_)
lstrip(s) == IF s # <<>> /\ Head(s) \in Whitespace THEN lstrip(Tail(s)) ELSE s

RECURSIVE rstrip(_)
rstrip(s) ==
    IF s # <<>> /\ s[Len(s)] \in Whitespace THEN rstrip(SubSeq(s, 1, Len(s) - 1)) ELSE s

strip(s) == rstrip(lstrip(s))

Digit(n) ==
    CASE n = 0 -> "0" [] n = 1 -> "1" [] n = 2 -> "2" [] n = 3 -> "3" [] n = 4 -> "4"
      [] n = 5 -> "5" [] n = 6 -> "6" [] n = 7 -> "7" [] n = 8 -> "8" [] n = 9 -> "9"

RECURSIVE StrOfNat(_)
StrOfNat(n) == IF n < 10 THEN Digit(n) ELSE StrOfNat(n \div 10) \o Digit(n % 10)

\* str(i) of a Python int
StrOfInt(i) == IF i < 0 THEN "-" \o StrOfNat(0 - i) ELSE StrOfNat(i)

-----------------------------------------------------------------------------
(* model-service/main.py: the classifier *)

CONFIDENCE_THRESHOLD == 70

Max(a, b) == IF a >= b THEN a ELSE b

extract_email_text(email_data) ==
    strip(email_data.subject \o <<" ">> \o email_data.body)

input_source_of(email_data) ==
    [subject |-> email_data.subject, sender |-> email_data.sender]

\* email_id or email_data.get("id", ""), email_id being None in every call.
id_of(email_data) == IF "id" \in DOMAIN email_data THEN email_data.id ELSE ""

\* What a raised HTTPException(status_code=500) is modelled as.
HTTP500 == [status_code |-> 500]

Raised(r) == r = HTTP500

\* analyze_email with the gate at <= 0.7 instead of < 0.7.
analyze_email_gate_le(email_data, score, loaded) ==
    LET email_text == extract_email_text(email_data)
        confidence == Max(score.probabilities[1], score.probabilities[2])
    IN  IF ~loaded THEN HTTP500
        ELSE IF email_text = <<>>
        THEN [id |-> id_of(email_data), prediction |-> 0, confidence |-> 0,
              message |-> "Empty email content",
              input_source |-> input_source_of(email_data)]
        ELSE IF confidence <= CONFIDENCE_THRESHOLD
        THEN [id |-> id_of(email_data), prediction |-> -1, confidence |-> confidence,
              message |-> "Suspicious email - uncertain classification",
              input_source |-> input_source_of(email_data)]
        ELSE [id |-> id_of(email_data), prediction |-> score.predicted,
              confidence |-> confidence,
              message |-> IF score.predicted = 1 THEN "Phishing email detected"
                          ELSE "Legitimate email",
              input_source |-> input_source_of(email_data)]

\* score is the oracle's output for the email text: model.predict and
\* model.predict_proba.  loaded: 'model' and 'vectorizer' are in globals().
analyze_email(email_data, score, loaded) ==
    LET email_text == extract_email_text(email_data)
        confidence == Max(score.probabilities[1], score.probabilities[2])
    IN  IF ~loaded THEN HTTP500
        ELSE IF email_text = <<>>
        THEN [id |-> id_of(email_data), prediction |-> 0, confidence |-> 0,
              message |-> "Empty email content",
              input_source |-> input_source_of(email_data)]
        ELSE IF confidence < CONFIDENCE_THRESHOLD
        THEN [id |-> id_of(email_data), prediction |-> -1, confidence |-> confidence,
              message |-> "Suspicious email - uncertain classification",
              input_source |-> input_source_of(email_data)]
        ELSE [id |-> id_of(email_data), prediction |-> score.predicted,
              confidence |-> confidence,
              message |-> IF score.predicted = 1 THEN "Phishing email detected"
                          ELSE "Legitimate email",
              input_source |-> input_source_of(email_data)]

CountPrediction(rs, p) == Cardinality({i \in 1..Len(rs) : rs[i].prediction = p})

summary_of(rs) ==
    [total |-> Len(rs),
     phishing |-> CountPrediction(rs, 1),
     legitimate |-> CountPrediction(rs, 0),
     suspicious |-> CountPrediction(rs, -1)]

BatchPredictionResponse(rs) ==
    [status |-> "success", results |-> rs, summary |-> summary_of(rs)]

-----------------------------------------------------------------------------
(* JSON values *)

JNull == [t |-> "null"]

JInt(i) == [t |-> "int", i |-> i]

JFloat(f) == [t |-> "float", f |-> f]

JStr(s) == [t |-> "str", s |-> s]

JText(x) == [t |-> "text", x |-> x]

JList(l) == [t |-> "list", l |-> l]

JDict(d) == [t |-> "dict", d |-> d]

KV(k, v) == [k |-> k, v |-> v]

IsDict(j) == j.t = "dict"

IsList(j) == j.t = "list"

Keys(j) == {j.d[i].k : i \in 1..Len(j.d)}

Has(j, key) == key \in Keys(j)

Get(j, key) == j.d[CHOOSE i \in 1..Len(j.d) : j.d[i].k = key].v

\* d[key] = v on a Python dict: an existing key keeps its place.
DictSet(d, key, v) ==
    IF \E i \in 1..Len(d) : d[i].k = key
    THEN [i \in 1..Len(d) |-> IF d[i].k = key THEN KV(key, v) ELSE d[i]]
    ELSE Append(d, KV(key, v))

\* PredictionResult.dict()
PredictionResultJson(r) ==
    JDict(<<KV("id", JStr(r.id)),
            KV("prediction", JInt(r.prediction)),
            KV("confidence", JFloat(r.confidence)),
            KV("message", JStr(r.message)),
            KV("input_source",
               JDict(<<KV("subject", JText(r.input_source.subject)),
                       KV("sender", JStr(r.input_source.sender))>>))>>)

\* BatchPredictionResponse.dict()
BatchResponseJson(b) ==
    JDict(<<KV("status", JStr(b.status)),
            KV("results", JList([i \in 1..Len(b.results) |->
                                    PredictionResultJson(b.results[i])])),
            KV("summary",
               JDict(<<KV("total", JInt(b.summary.total)),
                       KV("phishing", JInt(b.summary.phishing)),
                       KV("legitimate", JInt(b.summary.legitimate)),
                       KV("suspicious", JInt(b.summary.suspicious))>>))>>)

-----------------------------------------------------------------------------
(* The responses directory.  A file is its path (prefix and the stamp in   *)
(* its name), its modification time and its text: the JSON documents it    *)
(* holds one after the other.                                              *)

File(prefix, stamp, mtime, docs) ==
    [prefix |-> prefix, stamp |-> stamp, mtime |-> mtime, docs |-> docs]

\* open(path, "w"): a file of the same path is replaced.
WriteFile(dir, f) ==
    {g \in dir : ~(g.prefix = f.prefix /\ g.stamp = f.stamp)} \cup {f}

\* json.dump(response_obj, f, indent=2) into <prefix>_<now>.json
save_batch_response(dir, response_obj, prefix) ==
    WriteFile(dir, File(prefix, now, now, <<response_obj>>))

-----------------------------------------------------------------------------
(* model-service/main.py: the HTTP handlers *)

Senders == {"a@x"}

\* The emails of a request: the i-th has the id str(i), or is a record of
\* the extractor, which has a uid and a date and no id.
EmailsOf(batch) ==
    [i \in 1..Len(batch) |->
        IF "uid" \in DOMAIN batch[i]
        THEN [uid |-> batch[i].uid, sender |-> CHOOSE sender \in Senders : TRUE,
              subject |-> batch[i].subject, date |-> "", body |-> batch[i].body]
        ELSE [id |-> StrOfInt(i), sender |-> CHOOSE sender \in Senders : TRUE,
              subject |-> batch[i].subject, body |-> batch[i].body]]

\* List[EmailInput]: the body is validated before the handler runs, and an
\* item without 'id' is answered 422.
Unprocessable(emails) == \E i \in 1..Len(emails) : "id" \notin DOMAIN emails[i]

ScoresOf(batch) == [i \in 1..Len(batch) |-> batch[i].score]

Request(kind, batch) ==
    [kind |-> kind, emails |-> EmailsOf(batch), scores |-> ScoresOf(batch)]

Analyzed(emails, scores) ==
    [i \in 1..Len(emails) |-> analyze_email(emails[i], scores[i], model_loaded)]

\* batches: the request bodies the handler is given.
detect_phishing_batch(batches) ==
    /\ now < MaxClock
    /\ \E batch \in batches :
         LET rs == Analyzed(EmailsOf(batch), ScoresOf(batch))
             batch_response == BatchPredictionResponse(rs)
         IN  /\ request' = Request("batch", batch)
             /\ IF Unprocessable(EmailsOf(batch))
                THEN /\ response' = [status_code |-> 422]
                     /\ UNCHANGED files
                ELSE IF \E i \in 1..Len(rs) : Raised(rs[i])
                THEN /\ response' = HTTP500
                     /\ UNCHANGED files
                ELSE /\ files' = save_batch_response(files,
                                     BatchResponseJson(batch_response),
                                     "batch_api_response")
                     /\ response' = [status_code |-> 200, body |-> batch_response]
    /\ now' = now + 1
    /\ UNCHANGED <<model_loaded, saved, loaded_file, predictions_data, mailbox, before,
                   issued, results, tally, runs, first_run,
                   emails_json, extraction, actions_run, driver,
                   folders, labels_run, imap_run>>

\* kind: what the uploaded content is: a list of emails, {"emails": [...]},
\* a single email object, a JSON value that is neither a list nor an object,
\* or no JSON at all.
detect_phishing_upload_file(batches, singles) ==
    /\ now < MaxClock
    /\ \E kind \in {"list", "container", "single", "scalar", "notjson"} :
         \E batch \in (IF kind \in {"list", "container"} THEN batches
                       ELSE IF kind = "single" THEN {<<e>> : e \in singles}
                       ELSE {<<>>}) :
            LET rs == Analyzed(EmailsOf(batch), ScoresOf(batch))
                batch_response == BatchPredictionResponse(rs)
            IN  /\ request' = Request(kind, batch)
                /\ IF kind = "notjson"
                   THEN /\ response' = [status_code |-> 400]
                        /\ UNCHANGED files
                   ELSE IF kind = "scalar" \/ \E i \in 1..Len(rs) : Raised(rs[i])
                   THEN /\ response' = HTTP500
                        /\ UNCHANGED files
                   ELSE IF kind = "single"
                   THEN /\ response' = [status_code |-> 200,
                                        body |-> [status |-> "success",
                                                  result |-> rs[1]]]
                        /\ UNCHANGED files
                   ELSE /\ files' = save_batch_response(files,
                                        BatchResponseJson(batch_response),
                                        "batch_response")
                        /\ response' = [status_code |-> 200, body |-> batch_response]
    /\ now' = now + 1
    /\ UNCHANGED <<model_loaded, saved, loaded_file, predictions_data, mailbox, before,
                   issued, results, tally, runs, first_run,
                   emails_json, extraction, actions_run, driver,
                   folders, labels_run, imap_run>>

-----------------------------------------------------------------------------
(* str, json.dumps, json.loads, json.load *)

RECURSIVE json_dumps(_)
json_dumps(j) ==
    CASE j.t = "null" -> "null"
      [] j.t = "int" -> StrOfInt(j.i)
      [] j.t = "str" -> "\"" \o j.s \o "\""
      [] j.t = "list" ->
            LET F[n \in 0..Len(j.l)] ==
                    IF n = 0 THEN ""
                    ELSE F[n - 1] \o (IF n = 1 THEN "" ELSE ", ") \o json_dumps(j.l[n])
            IN  "[" \o F[Len(j.l)] \o "]"
      [] j.t = "dict" ->
            LET F[n \in 0..Len(j.d)] ==
                    IF n = 0 THEN ""
                    ELSE F[n - 1] \o (IF n = 1 THEN "" ELSE ", ")
                         \o "\"" \o j.d[n].k \o "\": " \o json_dumps(j.d[n].v)
            IN  "{" \o F[Len(j.d)] \o "}"

\* str(x) as an f-string or str() gives it for the values a uid or a
\* prediction takes here.
PyStr(j) == IF j.t = "str" THEN j.s ELSE json_dumps(j)

Labels == {-1, 0, 1, 2}

\* The JSON values a message content is parsed to.
ContentValues ==
    {JInt(p) : p \in Labels}
        \cup {JDict(<<KV("prediction", JInt(p))>>) : p \in Labels}

JSONDecodeError == [t |-> "JSONDecodeError"]

\* json.loads(s): the value whose text s is; a text that is no JSON raises.
json_loads(s) ==
    IF \E v \in ContentValues : json_dumps(v) = s
    THEN CHOOSE v \in ContentValues : json_dumps(v) = s
    ELSE JSONDecodeError

\* json.load(f): the file's text must be exactly one JSON document; an
\* empty file raises, and so does a second document after the first
\* ("Extra data").
json_load(f) == IF Len(f.docs) = 1 THEN f.docs[1] ELSE JSONDecodeError

-----------------------------------------------------------------------------
(* start.py: save_predictions *)

\* Python's truth value of a JSON value.
Truthy(j) ==
    CASE j.t = "null" -> FALSE
      [] j.t = "int" -> j.i # 0
      [] j.t = "float" -> j.f # 0
      [] j.t = "str" -> j.s # ""
      [] j.t = "text" -> j.x # <<>>
      [] j.t = "list" -> j.l # <<>>
      [] j.t = "dict" -> j.d # <<>>

\* dict.get(key) with the default None
GetOrNull(j, key) == IF Has(j, key) THEN Get(j, key) ELSE JNull

simplified_result(uid, prediction) ==
    JDict(<<KV("custom_id", JStr("email_" \o PyStr(uid))),
            KV("response",
               JDict(<<KV("body",
                  JDict(<<KV("choices",
                     JList(<<JDict(<<KV("message",
                        JDict(<<KV("content", JStr(PyStr(prediction)))>>))>>)>>))>>))>>))>>)

RECURSIVE simplified_results(_)
simplified_results(results_list) ==
    IF results_list = <<>> THEN <<>>
    ELSE LET result == Head(results_list)
             uid == GetOrNull(result, "uid")
             prediction == GetOrNull(result, "prediction")
         IN  (IF uid # JNull /\ prediction # JNull
              THEN <<simplified_result(uid, prediction)>> ELSE <<>>)
             \o simplified_results(Tail(results_list))

\* The list start.py takes the results from, or JNull where it returns False
\* before looking for one.
results_list_of(predictions_response) ==
    IF ~IsDict(predictions_response) THEN JNull
    ELSE IF Has(predictions_response, "batch_result")
    THEN LET batch_result == Get(predictions_response, "batch_result")
         IN  IF IsDict(batch_result) /\ Has(batch_result, "results")
             THEN Get(batch_result, "results") ELSE JNull
    ELSE IF Has(predictions_response, "results")
    THEN Get(predictions_response, "results")
    ELSE JNull

\* result.get on an item that is no dict raises, and so does the display
\* lookup of an unhashable prediction: save_predictions returns False
\* before the file is opened.
SaveRaises(results_list) ==
    \E i \in 1..Len(results_list) :
        \/ ~IsDict(results_list[i])
        \/ /\ GetOrNull(results_list[i], "uid") # JNull
           /\ GetOrNull(results_list[i], "prediction").t \in {"list", "dict"}

NoFile == File("", 0, 0, <<>>)

\* responses: the values of response.json() the driver passes.
save_predictions(responses) ==
    /\ now < MaxClock
    /\ \E predictions_response \in responses :
         LET results_list == results_list_of(predictions_response)
             results_file == File("batch_api_response", now, now,
                                  simplified_results(results_list.l))
         IN  IF ~Truthy(results_list) \/ ~IsList(results_list)
                \/ SaveRaises(results_list.l)
             THEN /\ saved' = [input |-> predictions_response, returned |-> FALSE,
                               file |-> NoFile]
                  /\ UNCHANGED files
             ELSE /\ files' = WriteFile(files, results_file)
                  /\ saved' = [input |-> predictions_response, returned |-> TRUE,
                               file |-> results_file]
    /\ now' = now + 1
    /\ UNCHANGED <<model_loaded, request, response, loaded_file, predictions_data, mailbox,
                   before, issued, results, tally, runs, first_run,
                   emails_json, extraction, actions_run, driver,
                   folders, labels_run, imap_run>>

-----------------------------------------------------------------------------
(* actions-service/main.py: load_latest_predictions *)

\* The state of the loader's 'predictions' dict, or that an exception left
\* the try block.
Ok(d) == [ok |-> TRUE, d |-> d]

LoadRaised == [ok |-> FALSE, d |-> <<>>]

\* 'key' in x: a dict is asked for the key; None or a number raises
\* TypeError; a list or a string of the documents here does not hold it.
InRaises(x) == x.t \in {"null", "int", "float"}

In(x, key) == IsDict(x) /\ Has(x, key)

\* The item of data['results'] read by an 'id' instead of a 'uid'.
results_item_by_id(acc, item) ==
    IF ~acc.ok \/ ~IsDict(item) THEN acc
    ELSE IF Has(item, "id") /\ Has(item, "prediction")
    THEN Ok(DictSet(acc.d, PyStr(Get(item, "id")), item))
    ELSE acc

\* One item of data['results'].
results_item(acc, item) ==
    IF ~acc.ok \/ ~IsDict(item) THEN acc
    ELSE IF Has(item, "uid") /\ Has(item, "prediction")
    THEN Ok(DictSet(acc.d, PyStr(Get(item, "uid")), item))
    ELSE IF Has(item, "custom_id") /\ Has(item, "response")
    THEN LET uid == PyStr(Get(item, "custom_id"))
             resp == Get(item, "response")
         IN  IF InRaises(resp) THEN LoadRaised
             ELSE IF ~In(resp, "body") THEN acc
             ELSE IF InRaises(Get(resp, "body")) THEN LoadRaised
             ELSE IF ~In(Get(resp, "body"), "choices") THEN acc
             ELSE LET choices == Get(Get(resp, "body"), "choices")
                  IN  IF ~(IsList(choices) /\ Len(choices.l) > 0) THEN acc
                      ELSE IF ~IsDict(choices.l[1]) THEN LoadRaised
                      ELSE LET message == IF Has(choices.l[1], "message")
                                          THEN Get(choices.l[1], "message")
                                          ELSE JDict(<<>>)
                           IN  IF ~IsDict(message) THEN LoadRaised
                               ELSE LET message_content ==
                                            IF Has(message, "content")
                                            THEN Get(message, "content") ELSE JStr("")
                                    IN  IF message_content.t # "str" THEN LoadRaised
                                        ELSE LET prediction_data ==
                                                     json_loads(message_content.s)
                                             IN  IF prediction_data = JSONDecodeError
                                                 THEN acc
                                                 ELSE Ok(DictSet(acc.d, uid,
                                                                 prediction_data))
    ELSE acc

RECURSIVE results_items(_, _)
results_items(acc, items) ==
    IF items = <<>> THEN acc
    ELSE results_items(results_item(acc, Head(items)), Tail(items))

\* x or y or z on values of dict.get
FirstTruthy(x, y, z) == IF Truthy(x) THEN x ELSE IF Truthy(y) THEN y ELSE z

HasPredictionInfo(x) == IsDict(x) /\ (Has(x, "prediction") \/ Has(x, "custom_id"))

\* The items of a list value found under 'key' of an unknown structure;
\* i is the index of Head(items).
RECURSIVE unknown_list(_, _, _, _)
unknown_list(acc, key, items, i) ==
    IF items = <<>> THEN acc
    ELSE LET item == Head(items)
             item_id == FirstTruthy(GetOrNull(item, "custom_id"), GetOrNull(item, "id"),
                                    JStr(key \o "_" \o StrOfInt(i)))
         IN  unknown_list(IF HasPredictionInfo(item)
                          THEN DictSet(acc, PyStr(item_id), item) ELSE acc,
                          key, Tail(items), i + 1)

RECURSIVE unknown_structure(_, _)
unknown_structure(acc, pairs) ==
    IF pairs = <<>> THEN acc
    ELSE LET key == Head(pairs).k
             value == Head(pairs).v
         IN  unknown_structure(
                 IF IsList(value) THEN unknown_list(acc, key, value.l, 0)
                 ELSE IF HasPredictionInfo(value) THEN DictSet(acc, key, value)
                 ELSE acc,
                 Tail(pairs))

\* The items of a document that is a list; i is the index of Head(items).
RECURSIVE list_structure(_, _, _)
list_structure(acc, items, i) ==
    IF items = <<>> THEN acc
    ELSE LET item == Head(items)
             item_id == FirstTruthy(GetOrNull(item, "id"), GetOrNull(item, "custom_id"),
                                    JStr(StrOfInt(i)))
         IN  list_structure(IF IsDict(item) THEN DictSet(acc, PyStr(item_id), item)
                            ELSE acc,
                            Tail(items), i + 1)

\* The conversion of the parsed document to the uid -> prediction mapping.
predictions_of(data) ==
    IF IsDict(data)
    THEN IF Has(data, "results") /\ IsList(Get(data, "results"))
         THEN results_items(Ok(<<>>), Get(data, "results").l)
         ELSE IF \A i \in 1..Len(data.d) : data.d[i].v = JNull \/ IsDict(data.d[i].v)
         THEN Ok(data.d)
         ELSE IF Has(data, "predictions")
         THEN \* len(predictions) and predictions.keys() raise on what is no dict
              IF IsDict(Get(data, "predictions"))
              THEN Ok(Get(data, "predictions").d) ELSE LoadRaised
         ELSE Ok(unknown_structure(<<>>, data.d))
    ELSE IF IsList(data)
    THEN Ok(list_structure(<<>>, data.l, 0))
    ELSE Ok(<<>>)

\* glob(batch_api_response_*.json)
json_files(dir) == {f \in dir : f.prefix = "batch_api_response"}

\* The files of the greatest stamp in their names.
latest_files_by_name(dir) ==
    {f \in json_files(dir) : \A g \in json_files(dir) : g.stamp <= f.stamp}

\* The files max(json_files, key=os.path.getmtime) can return: of several
\* files of the greatest mtime it returns the first in glob's order, which
\* is the file system's.
latest_files(dir) ==
    {f \in json_files(dir) : \A g \in json_files(dir) : g.mtime <= f.mtime}

\* latest_file: the file max returned, when a file matches.
load_latest_predictions(dir, latest_file) ==
    IF json_files(dir) = {} THEN <<>>
    ELSE LET data == json_load(latest_file)
         IN  IF data = JSONDecodeError THEN <<>>
             ELSE predictions_of(data).d

Latest(dir) == IF json_files(dir) = {} THEN {NoFile} ELSE latest_files(dir)

\* GmailProcessor(): the constructor loads the predictions.
GmailProcessor ==
    /\ \E latest_file \in Latest(files) :
          /\ loaded_file' = latest_file
          /\ predictions_data' = load_latest_predictions(files, latest_file)
    /\ runs' = 0
    /\ before' = mailbox
    /\ issued' = <<>>
    /\ results' = <<>>
    /\ tally' = [successful |-> 0, failed |-> 0, total |-> 0]
    /\ first_run' = [before |-> mailbox, mailbox |-> mailbox, results |-> <<>>]
    /\ UNCHANGED <<model_loaded, request, response, files, now, saved, mailbox,
                   emails_json, extraction, actions_run, driver,
                   folders, labels_run, imap_run>>

-----------------------------------------------------------------------------
(* The mail store, as the IMAP calls of perform_action meet it: the        *)
(* messages of INBOX, the ones of them flagged \Deleted, and the messages  *)
(* that carry the label 'suspicious'.                                      *)

Uids == {1, 2, 3}

\* The message sets a UID command takes here: one UID, in decimal.
UidNumbers == 1..9

\* A UID STORE whose message set is no UID is answered BAD, which imaplib
\* raises as IMAP4.error.
IsUid(email_uid) == \E u \in UidNumbers : StrOfInt(u) = email_uid

UidOf(email_uid) == CHOOSE u \in UidNumbers : StrOfInt(u) = email_uid

Command(cmd, target, arg) == [cmd |-> cmd, target |-> target, arg |-> arg]

\* mail.uid('store', email_uid, '+FLAGS', '\\Deleted'); a UID that is not
\* in INBOX is answered OK and changes nothing.
store_deleted(mb, email_uid) ==
    IF UidOf(email_uid) \in mb.inbox
    THEN [mb EXCEPT !.deleted = @ \cup {UidOf(email_uid)}]
    ELSE mb

\* mail.expunge(): every message of INBOX flagged \Deleted is removed.
expunge(mb) == [mb EXCEPT !.inbox = @ \ mb.deleted, !.deleted = {}]

\* mail.uid('store', email_uid, '+X-GM-LABELS', 'suspicious')
store_add_label(mb, email_uid) ==
    IF UidOf(email_uid) \in mb.inbox
    THEN [mb EXCEPT !.suspicious = @ \cup {UidOf(email_uid)}]
    ELSE mb

\* mail.uid('store', email_uid, '-X-GM-LABELS', '\\Inbox')
store_remove_inbox(mb, email_uid) ==
    [mb EXCEPT !.inbox = @ \ {UidOf(email_uid)}, !.deleted = @ \ {UidOf(email_uid)}]

-----------------------------------------------------------------------------
(* actions-service/main.py: the action pass *)

\* prediction == n, of a JSON value and a Python int
PyEq(j, n) == (j.t = "int" /\ j.i = n) \/ (j.t = "float" /\ j.f = 100 * n)

\* What the processing of one item leaves: the mailbox, the commands it
\* sent to the mail store, and its return value.
Outcome(mb, commands, success) ==
    [mailbox |-> mb, commands |-> commands, success |-> success]

Select == Command("select", "INBOX", "")

StoreDeleted(email_uid) == Command("store", email_uid, "+FLAGS \\Deleted")

Expunge == Command("expunge", "", "")

StoreAddLabel(email_uid) == Command("store", email_uid, "+X-GM-LABELS suspicious")

StoreRemoveInbox(email_uid) == Command("store", email_uid, "-X-GM-LABELS \\Inbox")

\* perform_action where a STORE on a message that is not in INBOX is taken
\* for a failure.
perform_action_strict(mb, email_uid, prediction) ==
    IF PyEq(prediction, 1)
    THEN IF ~IsUid(email_uid) \/ UidOf(email_uid) \notin mb.inbox
         THEN Outcome(mb, <<Select, StoreDeleted(email_uid)>>, FALSE)
         ELSE Outcome(expunge(store_deleted(mb, email_uid)),
                      <<Select, StoreDeleted(email_uid), Expunge>>, TRUE)
    ELSE IF PyEq(prediction, -1)
    THEN IF ~IsUid(email_uid) \/ UidOf(email_uid) \notin mb.inbox
         THEN Outcome(mb, <<Select, StoreAddLabel(email_uid)>>, FALSE)
         ELSE Outcome(store_remove_inbox(store_add_label(mb, email_uid), email_uid),
                      <<Select, StoreAddLabel(email_uid), StoreRemoveInbox(email_uid)>>,
                      TRUE)
    ELSE IF PyEq(prediction, 0)
    THEN Outcome(mb, <<Select>>, TRUE)
    ELSE Outcome(mb, <<Select>>, FALSE)

\* perform_action whose unknown-prediction branch lacks its 'return False'.
perform_action_unknown_true(mb, email_uid, prediction) ==
    IF PyEq(prediction, 1)
    THEN IF ~IsUid(email_uid)
         THEN Outcome(mb, <<Select, StoreDeleted(email_uid)>>, FALSE)
         ELSE Outcome(expunge(store_deleted(mb, email_uid)),
                      <<Select, StoreDeleted(email_uid), Expunge>>, TRUE)
    ELSE IF PyEq(prediction, -1)
    THEN IF ~IsUid(email_uid)
         THEN Outcome(mb, <<Select, StoreAddLabel(email_uid)>>, FALSE)
         ELSE Outcome(store_remove_inbox(store_add_label(mb, email_uid), email_uid),
                      <<Select, StoreAddLabel(email_uid), StoreRemoveInbox(email_uid)>>,
                      TRUE)
    ELSE Outcome(mb, <<Select>>, TRUE)

\* perform_action on the mailbox mb.  The first STORE raises on an
\* email_uid that is no UID, and the except clause returns False.
perform_action(mb, email_uid, prediction) ==
    IF PyEq(prediction, 1)
    THEN IF ~IsUid(email_uid)
         THEN Outcome(mb, <<Select, StoreDeleted(email_uid)>>, FALSE)
         ELSE Outcome(expunge(store_deleted(mb, email_uid)),
                      <<Select, StoreDeleted(email_uid), Expunge>>, TRUE)
    ELSE IF PyEq(prediction, -1)
    THEN IF ~IsUid(email_uid)
         THEN Outcome(mb, <<Select, StoreAddLabel(email_uid)>>, FALSE)
         ELSE Outcome(store_remove_inbox(store_add_label(mb, email_uid), email_uid),
                      <<Select, StoreAddLabel(email_uid), StoreRemoveInbox(email_uid)>>,
                      TRUE)
    ELSE IF PyEq(prediction, 0)
    THEN Outcome(mb, <<Select>>, TRUE)
    ELSE Outcome(mb, <<Select>>, FALSE)

\* f"{confidence:.3f}" raises on what is no number.
FormatRaises(confidence) == confidence.t \notin {"int", "float"}

process_email_by_uid(mb, email_uid, prediction_data) ==
    IF ~IsDict(prediction_data) THEN Outcome(mb, <<>>, FALSE)
    ELSE LET prediction == GetOrNull(prediction_data, "prediction")
             confidence == IF Has(prediction_data, "confidence")
                           THEN Get(prediction_data, "confidence") ELSE JFloat(0)
         IN  IF prediction = JNull THEN Outcome(mb, <<>>, FALSE)
             ELSE IF FormatRaises(confidence) THEN Outcome(mb, <<>>, FALSE)
             ELSE perform_action(mb, email_uid, prediction)

\* The state an action pass threads through its items: the mailbox, the
\* commands sent for each item, and the result map.
NoTally == [successful |-> 0, failed |-> 0, total |-> 0]

Pass(mb, log, res) == [mailbox |-> mb, issued |-> log, results |-> res]

\* The loop that stops at the first item that fails.
RECURSIVE process_items_abort(_, _)
process_items_abort(st, items) ==
    IF items = <<>> THEN st
    ELSE LET email_uid == Head(items).k
             r == process_email_by_uid(st.mailbox, email_uid, Head(items).v)
             next == Pass(r.mailbox,
                          Append(st.issued, [uid |-> email_uid, commands |-> r.commands]),
                          DictSet(st.results, email_uid, r.success))
         IN  IF r.success THEN process_items_abort(next, Tail(items)) ELSE next

\* The loop of process_all_predictions over predictions_data.items().
RECURSIVE process_items(_, _)
process_items(st, items) ==
    IF items = <<>> THEN st
    ELSE LET email_uid == Head(items).k
             r == process_email_by_uid(st.mailbox, email_uid, Head(items).v)
         IN  process_items(
                 Pass(r.mailbox,
                      Append(st.issued, [uid |-> email_uid, commands |-> r.commands]),
                      DictSet(st.results, email_uid, r.success)),
                 Tail(items))

CountTrue(res) == Cardinality({i \in 1..Len(res) : res[i].v})

process_all_predictions ==
    /\ predictions_data # <<>>
    /\ runs < MaxRuns
    /\ LET total_emails == Len(predictions_data)
           st == process_items(Pass(mailbox, <<>>, <<>>), predictions_data)
           successful == CountTrue(st.results)
       IN  /\ mailbox' = st.mailbox
           /\ issued' = st.issued
           /\ results' = st.results
           /\ tally' = [successful |-> successful,
                        failed |-> total_emails - successful,
                        total |-> total_emails]
           /\ first_run' = IF runs = 0
                           THEN [before |-> mailbox, mailbox |-> st.mailbox,
                                 results |-> st.results]
                           ELSE first_run
    /\ before' = mailbox
    /\ runs' = runs + 1
    /\ UNCHANGED <<model_loaded, request, response, files, now, saved, loaded_file,
                   predictions_data,
                   emails_json, extraction, actions_run, driver,
                   folders, labels_run, imap_run>>

-----------------------------------------------------------------------------
(* actions-service/main.py: main *)

\* main() of the action service.  credentials: GMAIL_ADDRESS and
\* GMAIL_PASSWORD are set; can_connect: connect() reaches the mail store and
\* logs in.  Every path returns from main or is caught by its except
\* clause, so the process ends with the exit code 0.
NoActionsRun == [ran |-> FALSE]

ActionsRun(latest_file, mb, predictions, connect_called, connected, pass, processed) ==
    [ran |-> TRUE, latest_file |-> latest_file, found |-> mb,
     predictions |-> predictions, connect_called |-> connect_called,
     connected |-> connected, pass |-> pass, processed |-> processed, exit_code |-> 0]

\* main() that connects before it looks at the predictions.
actions_main_connects(dir, latest_file, mb, credentials, can_connect) ==
    LET predictions == load_latest_predictions(dir, latest_file)
        idle == Pass(mb, <<>>, <<>>)
    IN  IF ~credentials
        THEN ActionsRun(latest_file, mb, predictions, FALSE, FALSE, idle, FALSE)
        ELSE IF ~can_connect
        THEN ActionsRun(latest_file, mb, predictions, TRUE, FALSE, idle, FALSE)
        ELSE IF predictions = <<>>
        THEN ActionsRun(latest_file, mb, predictions, TRUE, TRUE, idle, FALSE)
        ELSE ActionsRun(latest_file, mb, predictions, TRUE, TRUE,
                        process_items(idle, predictions), TRUE)

actions_main(dir, latest_file, mb, credentials, can_connect) ==
    LET predictions == load_latest_predictions(dir, latest_file)
        idle == Pass(mb, <<>>, <<>>)
    IN  IF ~credentials
        THEN ActionsRun(latest_file, mb, predictions, FALSE, FALSE, idle, FALSE)
        ELSE IF predictions = <<>>
        THEN ActionsRun(latest_file, mb, predictions, FALSE, FALSE, idle, FALSE)
        ELSE IF ~can_connect
        THEN ActionsRun(latest_file, mb, predictions, TRUE, FALSE, idle, FALSE)
        ELSE ActionsRun(latest_file, mb, predictions, TRUE, TRUE,
                        process_items(idle, predictions), TRUE)

\* What a run of the action service leaves in the state.
ActionsEffect(run, latest_file) ==
    /\ actions_run' = run
    /\ loaded_file' = latest_file
    /\ predictions_data' = run.predictions
    /\ before' = mailbox
    /\ mailbox' = run.pass.mailbox
    /\ issued' = run.pass.issued
    /\ results' = run.pass.results
    /\ tally' = IF run.processed
                THEN [successful |-> CountTrue(run.pass.results),
                      failed |-> Len(run.predictions) - CountTrue(run.pass.results),
                      total |-> Len(run.predictions)]
                ELSE NoTally
    /\ runs' = IF run.processed THEN 1 ELSE 0
    /\ first_run' = [before |-> mailbox, mailbox |-> run.pass.mailbox,
                     results |-> run.pass.results]

actions_service_main ==
    /\ \E latest_file \in Latest(files), credentials, can_connect \in BOOLEAN :
          ActionsEffect(actions_main(files, latest_file, mailbox, credentials,
                                     can_connect), latest_file)
    /\ UNCHANGED <<model_loaded, request, response, files, now, saved,
                   emails_json, extraction, driver,
                   folders, labels_run, imap_run>>

-----------------------------------------------------------------------------
(* email-service/main.py: the extractor.  The mailbox listing is the       *)
(* sequence of the UIDs of the messages of the inbox, in the order of      *)
(* their message numbers.                                                  *)

MaxMessages == 3

MaxCount == 4

\* l[start:] of Python: a negative start counts from the end, and -0 is 0.
slice_from(l, start) ==
    LET from == IF start < 0 THEN Max(Len(l) + start, 0) ELSE start
    IN  SubSeq(l, from + 1, Len(l))

recent_mail_ids(mail_ids, NUM_EMAILS) ==
    IF Len(mail_ids) > NUM_EMAILS THEN slice_from(mail_ids, 0 - NUM_EMAILS)
    ELSE mail_ids

\* A message of the inbox: its UID and what msg.get("Date", "") gives, a
\* str, or a Header object when the header holds a byte that is not ASCII.
Message(uid, date) == [uid |-> uid, date |-> date]

StrDate == [t |-> "str", s |-> "d"]

\* The record appended for the message msg (lines 87-93).
EmailRecord(msg) ==
    [uid |-> msg.uid, sender |-> "a@x", subject |-> <<"W">>, date |-> msg.date,
     body |-> <<"c">>]

\* json.dump(emails, f, indent=2) on the file just opened with 'w': the
\* text is written piece by piece, and a value that is no str, number, list
\* or dict raises TypeError with the records before it already written.
Serializable(record) == record.date.t = "str"

json_dump(emails) ==
    LET bad == {k \in 1..Len(emails) : ~Serializable(emails[k])}
        first == CHOOSE k \in bad : \A j \in bad : k <= j
    IN  IF bad = {} THEN [raised |-> FALSE,
                          file |-> [exists |-> TRUE, valid |-> TRUE, emails |-> emails]]
        ELSE [raised |-> TRUE,
              file |-> [exists |-> TRUE, valid |-> FALSE,
                        emails |-> SubSeq(emails, 1, first - 1)]]

\* raised: the step whose exception ended the run, "none" when none did.
Extraction(NUM_EMAILS, mail_ids, raised, selected, found, file, exit_code) ==
    [ran |-> TRUE, NUM_EMAILS |-> NUM_EMAILS, mail_ids |-> mail_ids, raised |-> raised,
     selected |-> selected, found |-> found, file |-> file, exit_code |-> exit_code]

\* The module body of email-service/main.py.  file: emails.json as the run
\* finds it.  Every exception ends in sys.exit(1).
extract_emails(NUM_EMAILS, mail_ids, fault, file) ==
    LET selected == recent_mail_ids(mail_ids, NUM_EMAILS)
        emails == [k \in 1..Len(selected) |-> EmailRecord(selected[k])]
        dumped == json_dump(emails)
    IN  IF fault[1] \in {"credentials", "connect", "login", "select", "search"}
        THEN Extraction(NUM_EMAILS, mail_ids, fault[1], <<>>, file, file, 1)
        ELSE IF fault[1] = "fetch" /\ fault[2] <= Len(selected)
        THEN Extraction(NUM_EMAILS, mail_ids, "fetch", selected, file, file, 1)
        ELSE IF fault[1] = "logout"
        THEN Extraction(NUM_EMAILS, mail_ids, "logout", selected, file, file, 1)
        ELSE IF dumped.raised
        THEN Extraction(NUM_EMAILS, mail_ids, "dump", selected, file, dumped.file, 1)
        ELSE Extraction(NUM_EMAILS, mail_ids, "none", selected, file, dumped.file, 0)

\* The UIDs of the inbox, oldest first.
InboxUids == <<"11", "12", "13", "14">>

\* The inbox with m messages, the Date header of the message at bad, if
\* any, holding a byte that is not ASCII.
Inbox(m, bad) ==
    [k \in 1..m |-> Message(InboxUids[k], IF k = bad THEN [t |-> "Header"] ELSE StrDate)]

\* fault, where the run is made to fail: the credentials are missing;
\* connect, login, select or search raises (a select answered NO leaves no
\* mailbox selected and the search raises); the fetch of the k-th selected
\* message raises, <<"fetch", k>>; close or logout raises.
email_service_main ==
    /\ \E NUM_EMAILS \in 0..MaxCount,
          mail_ids \in {Inbox(m, bad) : m \in {n \in 0..MaxMessages : n <= Len(InboxUids)},
                                       bad \in 0..MaxMessages},
          fault \in {<<"none">>, <<"credentials">>, <<"connect">>, <<"login">>,
                     <<"select">>, <<"search">>, <<"logout">>}
                        \cup {<<"fetch", k>> : k \in 1..MaxMessages} :
          LET run == extract_emails(NUM_EMAILS, mail_ids, fault, emails_json)
          IN  /\ extraction' = run
              /\ emails_json' = run.file
    /\ UNCHANGED <<model_loaded, request, response, files, now, saved, loaded_file,
                   predictions_data, mailbox, before, issued, results, tally, runs,
                   first_run, actions_run, driver, folders, labels_run, imap_run>>

-----------------------------------------------------------------------------
(* actions-service/labels.py *)

labels_to_create ==
    <<"Inboxguard", "Inboxguard/Phishing", "Inboxguard/Suspicious", "Inboxguard/Safe">>

\* str.lower() on the folder names met here.
lower(name) ==
    CASE name = "INBOX" -> "inbox"
      [] name = "Inboxguard" -> "inboxguard"
      [] name = "Inboxguard/Phishing" -> "inboxguard/phishing"
      [] name = "Inboxguard/Suspicious" -> "inboxguard/suspicious"
      [] name = "Inboxguard/Safe" -> "inboxguard/safe"
      [] OTHER -> name

\* The mail store as labels.py meets it.  quoted: LIST writes the folder
\* names as quoted strings, as Gmail does, and not as atoms (RFC 3501 allows
\* both); creatable: the new names whose CREATE is answered OK.
Server(names, quoted, creatable) ==
    [folders |-> names, quoted |-> quoted, creatable |-> creatable]

\* The name label_exists compares: folder.decode().split(' "/" ')[-1] is
\* the name as the line writes it, with its quotes when it is quoted.
current_label(server, folder) ==
    [quotes |-> server.quoted, name |-> lower(folder)]

label_exists(server, label_name) ==
    \E folder \in server.folders :
        current_label(server, folder) = [quotes |-> FALSE, name |-> lower(label_name)]

\* mail.create(label_name): answered NO when a folder of that name exists,
\* names compared without case as Gmail compares them.
create_label(server, label_name) ==
    IF /\ label_name \in server.creatable
       /\ \A folder \in server.folders : lower(folder) # lower(label_name)
    THEN [returned |-> TRUE, folders |-> server.folders \cup {label_name}]
    ELSE [returned |-> FALSE, folders |-> server.folders]

\* ensure_label_exists: what it returns, whether it called create, and the
\* folders it leaves.
ensure_label_exists(server, label_name) ==
    IF ~label_exists(server, label_name)
    THEN LET created == create_label(server, label_name)
         IN  [label |-> label_name, returned |-> created.returned, create |-> TRUE,
              folders |-> created.folders]
    ELSE [label |-> label_name, returned |-> TRUE, create |-> FALSE,
          folders |-> server.folders]

\* The loop of main over labels: the report of each label in turn.
RECURSIVE ensure_labels(_, _)
ensure_labels(server, labels) ==
    IF labels = <<>> THEN <<>>
    ELSE LET report == ensure_label_exists(server, Head(labels))
         IN  <<report>> \o ensure_labels([server EXCEPT !.folders = report.folders],
                                         Tail(labels))

\* main() of labels.py.  Without credentials it returns; connect_to_gmail
\* is called outside the try and its exception ends the process with the
\* exit code 1; a label that cannot be created is only reported.
\* created: every label was reported as a success.
labels_main(credentials, can_connect, server) ==
    LET reports == ensure_labels(server, labels_to_create)
        run(exit_code, connected, reps, names) ==
            [ran |-> TRUE, exit_code |-> exit_code, connected |-> connected,
             quoted |-> server.quoted, found |-> server.folders, reports |-> reps,
             created |-> connected /\ \A i \in 1..Len(reps) : reps[i].returned,
             folders |-> names]
    IN  IF ~credentials THEN run(0, FALSE, <<>>, server.folders)
        ELSE IF ~can_connect THEN run(1, FALSE, <<>>, server.folders)
        ELSE run(0, TRUE, reports, reports[Len(reports)].folders)

\* A run of labels.py.  again: the run before this one connected and
\* reported every label as a success.
labels_py_main ==
    /\ \E credentials, can_connect, quoted \in BOOLEAN,
          creatable \in SUBSET {labels_to_create[i] : i \in DOMAIN labels_to_create} :
          LET run == labels_main(credentials, can_connect,
                                 Server(folders, quoted, creatable))
          IN  /\ labels_run' = [ran |-> TRUE, run |-> run,
                                again |-> labels_run.ran /\ labels_run.run.created]
              /\ folders' = run.folders
    /\ UNCHANGED <<model_loaded, request, response, files, now, saved, loaded_file,
                   predictions_data, mailbox, before, issued, results, tally, runs,
                   first_run, emails_json, extraction, actions_run, driver, imap_run>>

-----------------------------------------------------------------------------
(* actions-service/imap_action.py *)

\* The values of --mailid: decimal numbers, strings that are no number, and
\* "sup2", which stands for the one-character string U+00B2 (superscript
\* two): str.isdigit() is True for it and int() raises ValueError.
isdigit(mailid) == mailid = "sup2" \/ \E n \in UidNumbers \cup {0} : StrOfNat(n) = mailid

int(mailid) == CHOOSE n \in UidNumbers \cup {0} : StrOfNat(n) = mailid

\* data[0].split(): the messages of INBOX by message number, each named
\* here by its UID.
RECURSIVE ids_of(_)
ids_of(inbox) ==
    IF inbox = {} THEN <<>>
    ELSE LET last == CHOOSE u \in inbox : \A v \in inbox : v <= u
         IN  Append(ids_of(inbox \ {last}), last)

\* The commands of an action on the message mail_id, and the mailbox they
\* leave when the store answers OK to each.
action_commands(action, mail_id) ==
    CASE action = "safe" -> <<>>
      [] action = "flag" -> <<Command("store", StrOfInt(mail_id), "+FLAGS \\Flagged")>>
      [] action = "tag" -> <<Command("create", "Suspect", ""),
                             Command("copy", StrOfInt(mail_id), "Suspect")>>
      [] action = "quarantine" -> <<Command("copy", StrOfInt(mail_id), "[Gmail]/Spam"),
                                    StoreDeleted(StrOfInt(mail_id))>>
      [] action = "delete" -> <<StoreDeleted(StrOfInt(mail_id)), Expunge>>

action_effect(mb, action, mail_id) ==
    CASE action = "quarantine" -> store_deleted(mb, StrOfInt(mail_id))
      [] action = "delete" -> expunge(store_deleted(mb, StrOfInt(mail_id)))
      [] OTHER -> mb

\* A run of the script: the mailbox it found, the listing, the message it
\* chose (0: none), the commands it sent, the step that raised ("none": no
\* step did), the mailbox it left and its exit code.
ImapRun(mb, mailid, action, ids, mail_id, commands, raised, left, exit_code) ==
    [ran |-> TRUE, found |-> mb, mailid |-> mailid, action |-> action, ids |-> ids,
     mail_id |-> mail_id, commands |-> commands, raised |-> raised, mailbox |-> left,
     exit_code |-> exit_code]

\* fault: the call that raises, "connect" (or login), "search" (or select,
\* after which the search raises), "command" (the first command of the
\* action); "refused": the store
\* answers NO to STORE, COPY and CREATE, which imaplib returns without
\* raising; "none".
imap_action(mb, mailid, action, fault) ==
    LET ids == ids_of(mb.inbox)
        mail_id == IF isdigit(mailid) /\ int(mailid) < Len(ids)
                   THEN ids[int(mailid) + 1] ELSE ids[Len(ids)]
        commands == action_commands(action, mail_id)
    IN  IF fault \in {"connect", "search"}
        THEN ImapRun(mb, mailid, action, <<>>, 0, <<>>, fault, mb, 104)
        ELSE IF ids = <<>>
        THEN ImapRun(mb, mailid, action, ids, 0, <<>>, "none", mb, 103)
        ELSE IF isdigit(mailid) /\ mailid = "sup2"
        THEN ImapRun(mb, mailid, action, ids, 0, <<>>, "int", mb, 104)
        ELSE IF fault = "command" /\ commands # <<>>
        THEN ImapRun(mb, mailid, action, ids, mail_id, <<Head(commands)>>, "command",
                     mb, 104)
        ELSE IF fault = "refused"
        THEN ImapRun(mb, mailid, action, ids, mail_id, commands, "none",
                     IF action = "delete" THEN expunge(mb) ELSE mb, 0)
        ELSE ImapRun(mb, mailid, action, ids, mail_id, commands, "none",
                     action_effect(mb, action, mail_id), 0)

imap_action_main ==
    /\ \E mailid \in {"0", "1", "7", "x", "-1", "sup2"},
          action \in {"safe", "flag", "tag", "delete", "quarantine"},
          fault \in {"none", "connect", "search", "command", "refused"} :
          LET run == imap_action(mailbox, mailid, action, fault)
          IN  /\ imap_run' = run
              /\ mailbox' = run.mailbox
    /\ UNCHANGED <<model_loaded, request, response, files, now, saved, loaded_file,
                   predictions_data, before, issued, results, tally, runs, first_run,
                   emails_json, extraction, actions_run, driver, folders, labels_run>>

-----------------------------------------------------------------------------
(* start.py: the driver *)

\* run_script of a script that ends with exit_code.
run_script(exit_code) == exit_code = 0

\* emails.json exists and json.load reads it.
check_extracted_emails(file) == file.exists /\ file.valid

\* What the service answers to the POST of the emails.
Answer(status_code, json) == [status_code |-> status_code, json |-> json]

\* response.json() for the status 200, None otherwise.
send_emails_to_model_service(answer) ==
    IF answer.status_code = 200 THEN answer.json ELSE JNull

\* What save_predictions returns for predictions_response at the time
\* timestamp, and the file it writes when it returns True.
save_predictions_result(predictions_response, timestamp) ==
    LET results_list == results_list_of(predictions_response)
    IN  IF ~Truthy(results_list) \/ ~IsList(results_list) \/ SaveRaises(results_list.l)
        THEN [returned |-> FALSE, file |-> NoFile]
        ELSE [returned |-> TRUE,
              file |-> File("batch_api_response", timestamp, timestamp,
                            simplified_results(results_list.l))]

check_batch_results(dir) == json_files(dir) # {}

\* A run of main(): what each step gave, and the value main returns.
\* stopped: the step at which main returned 1 before the label step,
\* "" when it did not; labels and actions are those of a script that was
\* not run when main stopped.
DriverRun(email_success, stopped, predictions, labels, actions, exit_code) ==
    [ran |-> TRUE, email_success |-> email_success, stopped |-> stopped,
     predictions |-> predictions, labels |-> labels, actions |-> actions,
     exit_code |-> exit_code]

\* The inputs of a run: the .env (credentials, NUM_EMAILS), the inbox and
\* the failure of the extractor, the health of the service and its answer,
\* and whether labels.py and the action service reach the mail store.
start_main(counts, listings, faults, answers) ==
    /\ now < MaxClock
    /\ \E NUM_EMAILS \in counts, mail_ids \in listings, fault \in faults,
          credentials, service_running, can_connect, quoted \in BOOLEAN,
          answer \in answers,
          label_step \in {"ok", "connect", "create"} :
          LET ext == extract_emails(NUM_EMAILS, mail_ids,
                                    IF credentials THEN fault ELSE <<"credentials">>,
                                    emails_json)
              email_success == run_script(ext.exit_code)
              has_emails == check_extracted_emails(ext.file)
              predictions == send_emails_to_model_service(answer)
              save == save_predictions_result(predictions, now)
              dir == IF save.returned THEN WriteFile(files, save.file) ELSE files
              stopped == IF ~has_emails THEN "emails"
                         ELSE IF ~service_running THEN "health"
                         ELSE IF predictions = JNull THEN "predictions"
                         ELSE IF ~save.returned THEN "save"
                         ELSE IF ~check_batch_results(dir) THEN "results"
                         ELSE ""
              labels == labels_main(credentials, label_step # "connect",
                                    Server(folders, quoted,
                                           IF label_step = "ok"
                                           THEN {labels_to_create[i] :
                                                    i \in DOMAIN labels_to_create}
                                           ELSE {}))
          IN  /\ extraction' = ext
              /\ emails_json' = ext.file
              /\ IF stopped \in {"emails", "health", "predictions"}
                 THEN UNCHANGED <<files, saved>>
                 ELSE /\ files' = dir
                      /\ saved' = [input |-> predictions, returned |-> save.returned,
                                   file |-> save.file]
              /\ IF stopped # ""
                 THEN /\ driver' = DriverRun(email_success, stopped, predictions,
                                             [exit_code |-> 0, created |-> FALSE],
                                             NoActionsRun, 1)
                      /\ UNCHANGED <<folders, labels_run>>
                      /\ UNCHANGED <<loaded_file, predictions_data, mailbox, before,
                                     issued, results, tally, runs, first_run,
                                     actions_run>>
                 ELSE \E latest_file \in Latest(dir) :
                         LET run == actions_main(dir, latest_file, mailbox, credentials,
                                                 can_connect)
                         IN  /\ ActionsEffect(run, latest_file)
                             /\ folders' = labels.folders
                             /\ labels_run' =
                                    [ran |-> TRUE, run |-> labels,
                                     again |-> labels_run.ran /\ labels_run.run.created]
                             /\ driver' = DriverRun(email_success, stopped, predictions,
                                                    labels, run,
                                                    IF run_script(run.exit_code)
                                                    THEN 0 ELSE 1)
    /\ now' = now + 1
    /\ UNCHANGED <<model_loaded, request, response, imap_run>>

-----
(* Inputs *)

\* The oracle's outputs: confidence 0.9, 0.7, 0.69 and 0.55, with either
\* class predicted.
Scores ==
    [predicted : {0, 1},
     probabilities : {<<10, 90>>, <<30, 70>>, <<31, 69>>, <<55, 45>>}]

Score(predicted, probabilities) ==
    [predicted |-> predicted, probabilities |-> probabilities]

\* One email and the oracle's output for it.  Subject and body: empty,
\* whitespace only, with content, and with content between whitespace.
Singles ==
    [subject : {<<>>, <<"W">>}, body : {<<>>, <<" ">>, <<"c">>, <<" ", "c", " ">>},
     score : Scores]

\* The emails of the batches: with content, as phishing, as legitimate at
\* exactly 0.7 and as unsure; and empty.
BatchContents ==
    {[subject |-> <<"W">>, body |-> <<"c">>, score |-> sc] :
        sc \in {Score(1, <<10, 90>>), Score(0, <<70, 30>>), Score(1, <<45, 55>>)}}
        \cup {[subject |-> <<>>, body |-> <<>>, score |-> Score(1, <<10, 90>>)]}

UploadContents ==
    {[subject |-> <<"W">>, body |-> <<"c">>, score |-> Score(0, <<55, 45>>)],
     [subject |-> <<>>, body |-> <<" ">>, score |-> Score(0, <<90, 10>>)]}

UploadBatches == SeqsUpTo(UploadContents, MaxBatch)

-----------------------------------------------------------------------------
(* Initial states and specifications *)

\* emails.json does not exist.
NoEmailsFile == [exists |-> FALSE, valid |-> FALSE, emails |-> <<>>]

InitWith(dirs, mailboxes, email_files, folder_sets) ==
    /\ model_loaded \in BOOLEAN
    /\ request = [kind |-> "none", emails |-> <<>>, scores |-> <<>>]
    /\ response = [status_code |-> 0]
    /\ files \in dirs
    /\ now = 0
    /\ saved = [input |-> JNull, returned |-> FALSE, file |-> NoFile]
    /\ loaded_file = NoFile
    /\ predictions_data = <<>>
    /\ mailbox \in mailboxes
    /\ before = mailbox
    /\ issued = <<>>
    /\ results = <<>>
    /\ tally = NoTally
    /\ runs = 0
    /\ first_run = [before |-> mailbox, mailbox |-> mailbox, results |-> <<>>]
    /\ emails_json \in email_files
    /\ extraction = [ran |-> FALSE]
    /\ actions_run = NoActionsRun
    /\ driver = [ran |-> FALSE]
    /\ folders \in folder_sets
    /\ labels_run = [ran |-> FALSE, again |-> FALSE]
    /\ imap_run = [ran |-> FALSE]

InitService ==
    InitWith({{}}, {[inbox |-> Uids, deleted |-> {}, suspicious |-> {}]}, {NoEmailsFile},
             {{"INBOX"}})

SpecClassifier ==
    InitService
        /\ [][\/ detect_phishing_batch(SeqsUpTo(BatchContents, MaxBatch))
              \/ detect_phishing_upload_file(UploadBatches, Singles)]_vars

\* What the driver passes to save_predictions.
UidResults ==
    {JDict(<<KV("uid", JStr(uid)), KV("prediction", JInt(p))>>) :
        uid \in {"1", "2"}, p \in {-1, 0, 1}}

UidResponse(rs) == JDict(<<KV("status", JStr("success")), KV("results", JList(rs))>>)

\* What /send-latest-batch answers.
\* loaded_emails: None when ../email-service/ holds no folder named like
\* 2024-01-31_10 (the extractor writes to extracted_emails), else the
\* document of the first .json file of the latest such folder.
trigger_send_latest_batch(loaded_emails) ==
    JDict(<<KV("status", JStr("Batch sent")), KV("loaded_json", loaded_emails)>>)

\* What /detect-phishing-batch answers.
ServiceResponses ==
    {BatchResponseJson(BatchPredictionResponse(
         [i \in 1..Len(batch) |->
             analyze_email(EmailsOf(batch)[i], ScoresOf(batch)[i], TRUE)])) :
        batch \in UploadBatches}

SaveResponses ==
    {UidResponse(rs) : rs \in SeqsUpTo(UidResults, MaxBatch)}
        \cup {JDict(<<KV("batch_result", UidResponse(<<r>>))>>) : r \in UidResults}
        \cup {JDict(<<KV("batch_result", JNull)>>), trigger_send_latest_batch(JNull), JNull}
        \cup ServiceResponses

SpecStore ==
    InitService
        /\ [][\/ detect_phishing_batch(UploadBatches)
              \/ save_predictions(SaveResponses)
              \/ GmailProcessor]_vars

\* The verdict files the action service finds: the entries of a file are
\* its ids with what is stored for each.
MaxEntries == 2

Prediction(p) == JDict(<<KV("prediction", p)>>)

\* What is stored for an id: the three labels, a label out of range, a
\* label as text, an object that lacks the prediction, one whose confidence
\* is no number, a full verdict, and null.
StoredValues ==
    {Prediction(JInt(1)), Prediction(JInt(0)), Prediction(JInt(-1)),
     Prediction(JInt(2)), Prediction(JStr("1")),
     JDict(<<KV("confidence", JFloat(90))>>),
     JDict(<<KV("prediction", JInt(1)), KV("confidence", JStr("high"))>>),
     JDict(<<KV("prediction", JInt(-1)), KV("confidence", JFloat(55)),
             KV("message", JStr("Suspicious email - uncertain classification"))>>),
     JNull}

UniqueKeys(d) == \A i, j \in 1..Len(d) : d[i].k = d[j].k => i = j

\* A document that maps each id to what is stored for it.
DirectDocs ==
    {JDict(d) : d \in {e \in SeqsUpTo([k : {"1", "2", "3"}, v : StoredValues], MaxEntries) :
                          UniqueKeys(e)}}

CustomIdItem(uid, content) ==
    JDict(<<KV("custom_id", JStr("email_" \o uid)),
            KV("response",
               JDict(<<KV("body",
                  JDict(<<KV("choices",
                     JList(<<JDict(<<KV("message",
                        JDict(<<KV("content", JStr(content))>>))>>)>>))>>))>>))>>)

\* What a message content holds: a verdict object, a bare label, and text
\* that is no JSON.
Contents ==
    {json_dumps(Prediction(JInt(1))), json_dumps(Prediction(JInt(-1))), "1", "phishing"}

\* A document with a 'results' array of items under namespaced keys.
CustomIdDocs ==
    {JDict(<<KV("results", JList(items))>>) :
        items \in {<<CustomIdItem("1", c)>> : c \in Contents}
                    \cup {<<CustomIdItem("1", c), CustomIdItem("2", json_dumps(Prediction(JInt(0))))>> :
                             c \in Contents}}

\* A document with a 'results' array of {uid, prediction} objects.
\* The items of the 'results' arrays among the verdict files: uid 1 as
\* Phishing and as Legitimate, uid 2 as Suspicious and as Phishing.
UidEntries ==
    {r \in UidResults :
        \/ Get(r, "uid") = JStr("1") /\ Get(r, "prediction") \in {JInt(1), JInt(0)}
        \/ Get(r, "uid") = JStr("2") /\ Get(r, "prediction") \in {JInt(-1), JInt(1)}}

UidDocs == {UidResponse(rs) : rs \in SeqsUpTo(UidEntries, MaxEntries)}

\* The inboxes the action service meets: with or without message 1, and
\* with message 1 or the bystander 3 already flagged \Deleted.
Mailboxes ==
    {[inbox |-> I, deleted |-> D, suspicious |-> {}] :
        I \in {Uids, Uids \ {1}}, D \in {{}, {1}, {3}}} \ 
    {[inbox |-> Uids \ {1}, deleted |-> {1}, suspicious |-> {}]}

InitAction ==
    /\ InitWith({{File("batch_api_response", 0, 0, <<doc>>)} :
                    doc \in DirectDocs \cup CustomIdDocs \cup UidDocs},
                Mailboxes, {NoEmailsFile}, {{"INBOX"}})
    /\ model_loaded

SpecAction == InitAction /\ [][GmailProcessor \/ process_all_predictions]_vars

\* The records of the extractor: the mailbox UID under 'uid'.
RecordContents ==
    {[uid |-> uid, subject |-> <<"W">>, body |-> <<"c">>, score |-> Score(1, <<10, 90>>)] :
        uid \in {"7", "8"}}
        \cup {[subject |-> <<"W">>, body |-> <<"c">>, score |-> sc] :
                 sc \in {Score(1, <<10, 90>>), Score(0, <<55, 45>>)}}

RecordBatches == SeqsUpTo(RecordContents, MaxBatch)

SpecRecords ==
    InitService
        /\ [][\/ detect_phishing_batch(RecordBatches)
              \/ detect_phishing_upload_file(RecordBatches, RecordContents)]_vars

\* emails.json as a run of the extractor finds it: missing, or left by an
\* earlier run.
InitExtractor ==
    /\ InitWith({{}}, {[inbox |-> Uids, deleted |-> {}, suspicious |-> {}]},
                {NoEmailsFile,
                 [exists |-> TRUE, valid |-> TRUE,
                  emails |-> <<EmailRecord(Message("9", StrDate))>>]},
                {{"INBOX"}})
    /\ model_loaded

SpecExtractor == InitExtractor /\ [][email_service_main]_vars

\* The runs of the driver: one or two messages, one with a Date header
\* that is not ASCII; the extractor failing at connect or at the first
\* fetch; the service answering with the results of one or two messages,
\* with none, as /send-latest-batch does, or with an error.
DriverAnswers ==
    {Answer(200, UidResponse(<<r>>)) : r \in UidResults}
        \cup {Answer(200, UidResponse(<<>>)),
              Answer(200, UidResponse(<<CHOOSE r \in UidResults : TRUE,
                                        CHOOSE r \in UidResults : TRUE>>)),
              Answer(200, trigger_send_latest_batch(JNull)),
              Answer(200, JNull),
              Answer(500, JNull)}

SpecDriver ==
    InitExtractor
        /\ [][start_main({0, 2}, {Inbox(1, 0), Inbox(2, 0), Inbox(2, 2)},
                         {<<"none">>, <<"connect">>, <<"fetch", 1>>}, DriverAnswers)]_vars

\* The driver with the model service of this repository behind
\* /send-latest-batch: it answers 200 with what it loaded, or 500 when
\* listing ../email-service/ raises.
PipelineAnswers ==
    {Answer(200, trigger_send_latest_batch(JNull)),
     Answer(200, trigger_send_latest_batch(
                     JList(<<JDict(<<KV("id", JStr("1")), KV("subject", JStr("W")),
                                     KV("body", JStr("c"))>>)>>))),
     Answer(500, JNull)}

SpecPipeline ==
    InitExtractor
        /\ [][start_main({0, 1, 2}, {Inbox(m, bad) : m \in 0..2, bad \in 0..2},
                         {<<"none">>, <<"connect">>, <<"fetch", 1>>, <<"fetch", 2>>},
                         PipelineAnswers)]_vars

\* The folders labels.py finds: none of its labels, its first label under
\* another case, two of its labels.
InitLabels ==
    /\ InitWith({{}}, {[inbox |-> Uids, deleted |-> {}, suspicious |-> {}]}, {NoEmailsFile},
                {{"INBOX"}, {"INBOX", "inboxguard"},
                 {"INBOX", "Inboxguard", "Inboxguard/Phishing"}})
    /\ model_loaded

SpecLabels == InitLabels /\ [][labels_py_main]_vars

\* The inboxes imap_action.py finds: empty, or with messages, one of them
\* flagged \Deleted or none.
InitImap ==
    /\ InitWith({{}},
                {[inbox |-> I, deleted |-> D, suspicious |-> {}] :
                    I \in {{}, Uids, Uids \ {1}}, D \in {{}, {3}}}
                    \ {[inbox |-> {}, deleted |-> {3}, suspicious |-> {}]},
                {NoEmailsFile}, {{"INBOX"}})
    /\ model_loaded

SpecImap == InitImap /\ [][imap_action_main]_vars

\* The verdict files of the loader.  Wrapped: a mapping under the key
\* 'predictions', alone or next to a status.
Mappings ==
    {<<KV("1", Prediction(JInt(1)))>>,
     <<KV("1", Prediction(JInt(1))), KV("2", Prediction(JInt(-1)))>>}

WrapperDocs ==
    {JDict(<<KV("predictions", JDict(m))>>) : m \in Mappings}
        \cup {JDict(<<KV("status", JStr("success")), KV("predictions", JDict(m))>>) :
                 m \in Mappings}

Response(body) == JDict(<<KV("body", body)>>)

Choices(l) == JDict(<<KV("choices", JList(l))>>)

\* Entries of a 'results' array that hold no verdict: null, a string, an
\* object without prediction, and items under a namespaced key whose
\* response is null, is empty, has no choice, has a choice that is no
\* object, or has a content that is no JSON.
MalformedEntries ==
    {JNull, JStr("x"), JDict(<<KV("uid", JStr("1"))>>),
     JDict(<<KV("custom_id", JStr("email_1")), KV("response", JNull)>>),
     JDict(<<KV("custom_id", JStr("email_1")), KV("response", JDict(<<>>))>>),
     JDict(<<KV("custom_id", JStr("email_1")), KV("response", Response(Choices(<<>>)))>>),
     JDict(<<KV("custom_id", JStr("email_1")),
             KV("response", Response(Choices(<<JStr("x")>>)))>>),
     CustomIdItem("1", "phishing")}

WellFormedEntries ==
    {JDict(<<KV("uid", JStr("2")), KV("prediction", JInt(1))>>),
     CustomIdItem("2", json_dumps(Prediction(JInt(0))))}

\* A 'results' array with a malformed entry before or after a well-formed
\* one.
EntryDocs ==
    {JDict(<<KV("results", JList(<<bad, good>>))>>) :
        bad \in MalformedEntries, good \in WellFormedEntries}
    \cup {JDict(<<KV("results", JList(<<good, bad>>))>>) :
             bad \in MalformedEntries, good \in WellFormedEntries}

\* The texts of the files: one document, or the lines of a
\* newline-delimited file, which is no JSON document when the lines are two.
LoaderTexts ==
    {<<doc>> : doc \in WrapperDocs \cup EntryDocs
                   \cup {JDict(m) : m \in Mappings} \cup {JDict(<<>>)}}
        \cup {<<CustomIdItem("1", "1"), CustomIdItem("2", "0")>>}

\* The responses directory: empty; one file, under the prefix the loader
\* matches or under the other one; two files whose names and modification
\* times are in either order or tie, the second under either prefix and
\* holding a mapping for another id, or lines.
LoaderDirs ==
    {{}}
        \cup {{File(prefix, 0, 0, text)} :
                 prefix \in {"batch_api_response", "batch_response"}, text \in LoaderTexts}
        \cup {{File("batch_api_response", 0, m, text), File(prefix, 1, 1, other)} :
                 m \in 0..2, text \in LoaderTexts,
                 other \in {<<JDict(<<KV("3", Prediction(JInt(0)))>>)>>,
                            <<CustomIdItem("3", "1"), CustomIdItem("3", "0")>>},
                 prefix \in {"batch_api_response", "batch_response"}}

InitLoader ==
    /\ InitWith(LoaderDirs, {[inbox |-> Uids, deleted |-> {}, suspicious |-> {}]},
                {NoEmailsFile}, {{"INBOX"}})
    /\ model_loaded

SpecLoader == InitLoader /\ [][GmailProcessor \/ actions_service_main]_vars

-----
(* The claims *)

\* The verdicts of the last response, in the order of the request.
Verdicts ==
    IF response.status_code # 200 THEN <<>>
    ELSE IF request.kind = "single" THEN <<response.body.result>>
    ELSE response.body.results

\* The trimmed 'subject + " " + body' is not empty: some character of the
\* subject or the body is no whitespace.
HasContent(email) ==
    \E i \in 1..Len(email.subject \o email.body) :
        (email.subject \o email.body)[i] \notin Whitespace

\* The oracle's confidence: the larger of the two class probabilities.
ConfidenceOf(score) ==
    IF score.probabilities[1] > score.probabilities[2]
    THEN score.probabilities[1] ELSE score.probabilities[2]

\* C1: for every email with content and every output of the oracle, the
\* verdict is Suspicious (-1) when the confidence is below 0.7, whatever was
\* predicted, and from 0.7 on (0.7 included) it is the predicted class:
\* Phishing (1) or Legitimate (0).
C1_ConfidenceGate ==
    response.status_code = 200 =>
        \A i \in 1..Len(request.emails) :
            HasContent(request.emails[i]) =>
                /\ Verdicts[i].confidence = ConfidenceOf(request.scores[i])
                /\ Verdicts[i].prediction =
                       IF ConfidenceOf(request.scores[i]) < 70 THEN -1
                       ELSE request.scores[i].predicted

\* A response to a batch with an email the oracle predicted phishing at
\* 0.55, gated to Suspicious, and one it predicted legitimate at exactly
\* 0.7, kept Legitimate.
C1_Witness ==
    /\ response.status_code = 200
    /\ \E i, j \in 1..Len(request.emails) :
          /\ HasContent(request.emails[i]) /\ HasContent(request.emails[j])
          /\ request.scores[i] = Score(1, <<45, 55>>)
          /\ Verdicts[i].prediction = -1
          /\ request.scores[j] = Score(0, <<70, 30>>)
          /\ Verdicts[j].prediction = 0

\* C2: every email without content gets a verdict of confidence 0.0 whose
\* label is Suspicious: the value -1 that the confidence gate assigns, that
\* the summary counts under 'suspicious' and that perform_action moves to the
\* suspicious label.  Stated of the responses that carry verdicts.
C2_EmptyContentIsSuspicious ==
    response.status_code = 200 =>
        \A i \in 1..Len(request.emails) :
            ~HasContent(request.emails[i]) =>
                /\ Verdicts[i].confidence = 0
                /\ Verdicts[i].prediction = -1
                /\ request.kind # "single" => response.body.summary.suspicious >= 1

\* The labels C3's summary is about, by the claim's reading of them: an
\* email without content is Suspicious, as is one below the gate.
ClaimedLabel(email, score) ==
    IF ~HasContent(email) \/ ConfidenceOf(score) < 70 THEN -1 ELSE score.predicted

ClaimedCount(label) ==
    Cardinality({i \in 1..Len(request.emails) :
                    ClaimedLabel(request.emails[i], request.scores[i]) = label})

\* C3: the summary of a batch has total = phishing + legitimate +
\* suspicious, and each count is the number of verdicts of that label, a
\* verdict for an email without content counting as Suspicious.
C3_SummaryCountsLabels ==
    (response.status_code = 200 /\ request.kind \in {"batch", "list", "container"}) =>
        LET summary == response.body.summary
        IN  /\ summary.total = Len(request.emails)
            /\ summary.total = summary.phishing + summary.legitimate + summary.suspicious
            /\ summary.phishing = ClaimedCount(1)
            /\ summary.legitimate = ClaimedCount(0)
            /\ summary.suspicious = ClaimedCount(-1)

\* The records save_predictions was given that carry a uid and a prediction.
SavedRecords ==
    LET rl == results_list_of(saved.input).l
    IN  {rl[i] : i \in {j \in 1..Len(rl) :
                           /\ GetOrNull(rl[j], "uid") # JNull
                           /\ GetOrNull(rl[j], "prediction") # JNull}}

\* The label a loaded entry carries: the entry itself, or its 'prediction'.
EntryLabel(v) == IF IsDict(v) THEN GetOrNull(v, "prediction") ELSE v

\* The loaded entry whose key is the id, bare or namespaced.
EntriesFor(id) ==
    {i \in 1..Len(predictions_data) :
        predictions_data[i].k \in {id, "email_" \o id}}

\* C4: after save_predictions wrote its file, one JSON object per line, a
\* load_latest_predictions that selects the file returns one entry per
\* written record, with the label of that record.
C4_RoundTripLines ==
    (saved.returned /\ loaded_file = saved.file) =>
        /\ Len(predictions_data) =
               Cardinality({Get(r, "uid") : r \in SavedRecords})
        /\ \A r \in SavedRecords :
              \E i \in EntriesFor(Get(r, "uid").s) :
                  EntryLabel(predictions_data[i].v) = Get(r, "prediction")

\* C5: after detect_phishing_batch wrote its response as one document, a
\* load_latest_predictions that selects the file returns one entry per
\* verdict, keyed by the verdict's id, with its prediction and confidence.
C5_RoundTripDocument ==
    (/\ response.status_code = 200
     /\ request.kind = "batch"
     /\ loaded_file.prefix = "batch_api_response"
     /\ loaded_file.docs = <<BatchResponseJson(response.body)>>) =>
        \A n \in 1..Len(Verdicts) :
            \E i \in 1..Len(predictions_data) :
                /\ predictions_data[i].k = Verdicts[n].id
                /\ IsDict(predictions_data[i].v)
                /\ GetOrNull(predictions_data[i].v, "prediction")
                       = JInt(Verdicts[n].prediction)
                /\ GetOrNull(predictions_data[i].v, "confidence")
                       = JFloat(Verdicts[n].confidence)

\* The label of a stored entry is n: the entry is an object whose
\* 'prediction' is the number n.
HasLabel(v, n) ==
    /\ IsDict(v)
    /\ Has(v, "prediction")
    /\ Get(v, "prediction") \in {JInt(n), JFloat(100 * n)}

\* A verdict the action mapper can act on: a label of the three, a
\* confidence that is absent or a number, under a key that is a UID.
Actionable(entry) ==
    /\ \E n \in {-1, 0, 1} : HasLabel(entry.v, n)
    /\ Has(entry.v, "confidence") => Get(entry.v, "confidence").t \in {"int", "float"}
    /\ \E u \in UidNumbers : entry.k = StrOfInt(u)

Mutations(commands) ==
    {i \in 1..Len(commands) : commands[i].cmd \in {"store", "expunge"}}

\* The mutations of a command log, without their targets.
Kinds(commands) == [n \in 1..Len(commands) |-> <<commands[n].cmd, commands[n].arg>>]

\* C6: in an action pass, each entry of the loaded mapping gets the mutation
\* of its label after INBOX is selected: Phishing, the message is flagged
\* \Deleted and expunged; Suspicious, the label 'suspicious' is added and
\* '\Inbox' removed; Legitimate, no mutation; and each of the three is
\* recorded as a success.
C6_DestructiveStrategy ==
    runs >= 1 =>
        \A i \in 1..Len(predictions_data) :
            LET entry == predictions_data[i]
            IN  /\ HasLabel(entry.v, 1) =>
                      /\ Kinds(issued[i].commands) =
                             <<(<<"select", "">>), (<<"store", "+FLAGS \\Deleted">>),
                               (<<"expunge", "">>)>>
                      /\ results[i] = KV(entry.k, TRUE)
                /\ HasLabel(entry.v, -1) =>
                      /\ Kinds(issued[i].commands) =
                             <<(<<"select", "">>), (<<"store", "+X-GM-LABELS suspicious">>),
                               (<<"store", "-X-GM-LABELS \\Inbox">>)>>
                      /\ results[i] = KV(entry.k, TRUE)
                /\ HasLabel(entry.v, 0) =>
                      /\ Kinds(issued[i].commands) = <<(<<"select", "">>)>>
                      /\ results[i] = KV(entry.k, TRUE)

\* C7: for an entry loaded under the namespaced key 'email_<uid>', the
\* mutations sent to the mail store name <uid>, the UID, not the key.
C7_TargetIsMailboxUid ==
    runs >= 1 =>
        \A i \in 1..Len(predictions_data) :
            \A u \in UidNumbers :
                predictions_data[i].k = "email_" \o StrOfInt(u) =>
                    \A n \in 1..Len(issued[i].commands) :
                        issued[i].commands[n].cmd = "store" =>
                            issued[i].commands[n].target = StrOfInt(u)

\* C8: a second pass over the same mapping leaves the mailbox as the first
\* pass left it, and every item the first pass recorded as a success is a
\* success of the second.
C8_SecondPassIdempotent ==
    runs >= 2 =>
        /\ mailbox = first_run.mailbox
        /\ Len(results) = Len(first_run.results)
        /\ \A i \in 1..Len(results) :
              /\ results[i].k = first_run.results[i].k
              /\ first_run.results[i].v => results[i].v

\* A second pass after a first one that changed the mailbox for a Phishing
\* or Suspicious entry it recorded as a success.
C8_Witness ==
    /\ runs = 2
    /\ first_run.before # first_run.mailbox
    /\ \E i \in 1..Len(predictions_data) :
          /\ HasLabel(predictions_data[i].v, 1) \/ HasLabel(predictions_data[i].v, -1)
          /\ first_run.results[i].v
          /\ results[i].v

\* An entry the action mapper cannot read a label of the three from: no
\* object, no prediction, or a prediction that is none of 1, 0, -1.
UnknownLabel(v) == \A n \in {-1, 0, 1} : ~HasLabel(v, n)

C10_NoAbortAndTally ==
    runs >= 1 =>
        /\ Len(results) = Len(predictions_data)
        /\ \A i \in 1..Len(results) : results[i].k = predictions_data[i].k
        /\ \A i, j \in 1..Len(results) : results[i].k = results[j].k => i = j
        /\ tally.successful + tally.failed = Len(predictions_data)
        /\ tally.successful = Cardinality({i \in 1..Len(results) : results[i].v})
        /\ tally.total = Len(predictions_data)

\* A pass whose first item failed on a STORE that raised and whose second
\* item succeeded.
C10_Witness ==
    /\ runs >= 1
    /\ Len(predictions_data) = 2
    /\ Mutations(issued[1].commands) # {}
    /\ results[1].v = FALSE
    /\ results[2].v = TRUE
    /\ tally = [successful |-> 1, failed |-> 1, total |-> 2]

\* The ids that only the files of the second name hold.
OtherIds == {"3", "email_3"}

\* C11: the loader takes, among the files named batch_api_response_*.json,
\* one of the greatest modification time, whatever the order of the names,
\* and the mapping it returns comes from that file alone.
C11_LatestByMtime ==
    loaded_file # NoFile =>
        /\ loaded_file \in json_files(files)
        /\ \A g \in json_files(files) : g.mtime <= loaded_file.mtime
        /\ predictions_data = load_latest_predictions({loaded_file}, loaded_file)
        /\ \A i \in 1..Len(predictions_data) :
              loaded_file.stamp = 0 => predictions_data[i].k \notin OtherIds

\* The file loaded has the older name and the newer modification time, next
\* to a matching file of the newer name, and its mapping is not empty.
C11_Witness ==
    /\ loaded_file # NoFile
    /\ loaded_file.stamp = 0
    /\ \E g \in json_files(files) : g.stamp = 1 /\ g.mtime < loaded_file.mtime
    /\ predictions_data # <<>>

\* No file matches the naming convention, or the one max returned cannot be
\* parsed as one JSON document.
NothingToLoad(dir, latest_file) ==
    \/ \A f \in dir : f.prefix # "batch_api_response"
    \/ Len(latest_file.docs) # 1

\* C12: when no file matches or the latest matching file cannot be parsed,
\* the loader returns the empty mapping, and main of the action service
\* does not connect, sends no command to the mail store, leaves the mailbox
\* as it found it and ends with the exit code 0.
C12_NothingToActOn ==
    (actions_run.ran /\ NothingToLoad(files, actions_run.latest_file)) =>
        /\ actions_run.predictions = <<>>
        /\ ~actions_run.connect_called
        /\ actions_run.pass.issued = <<>>
        /\ actions_run.pass.mailbox = actions_run.found
        /\ actions_run.exit_code = 0

\* The action service ran on a directory whose latest matching file holds
\* two lines, next to an older matching file with a mapping.
C12_Witness ==
    /\ actions_run.ran
    /\ Len(actions_run.latest_file.docs) = 2
    /\ \E g \in json_files(files) :
          g # actions_run.latest_file /\ Len(g.docs) = 1 /\ g.docs[1] = JDict(<<KV("1", Prediction(JInt(1)))>>)
    /\ ~actions_run.connect_called
    /\ mailbox = actions_run.found

\* C13: a document {"predictions": M}, M a mapping from id to verdict
\* object, is loaded as M: the mapping that loading M itself gives.
C13_WrapperIsUnwrapped ==
    \A m \in Mappings :
        loaded_file.docs = <<JDict(<<KV("predictions", JDict(m))>>)>> =>
            predictions_data = m

\* The items of the 'results' array loaded, when the file is such a document
\* of {uid, prediction} objects.
UidItems ==
    IF /\ Len(loaded_file.docs) = 1
       /\ loaded_file.docs[1] \in UidDocs
    THEN Get(loaded_file.docs[1], "results").l
    ELSE <<>>

\* The last item of the array stored for the uid.
StoredFor(uid) ==
    LET at == {n \in 1..Len(UidItems) : Get(UidItems[n], "uid") = JStr(uid)}
    IN  UidItems[CHOOSE n \in at : \A k \in at : k <= n]

\* C14: a document with a 'results' array of {uid, prediction} objects is
\* loaded as one entry per distinct uid, each with the prediction stored for
\* the uid, and a pass acts on each uid with that label.
C14_ResultsArrayByUid ==
    UidItems # <<>> =>
        /\ {predictions_data[i].k : i \in 1..Len(predictions_data)}
               = {Get(UidItems[n], "uid").s : n \in 1..Len(UidItems)}
        /\ \A i, j \in 1..Len(predictions_data) :
              predictions_data[i].k = predictions_data[j].k => i = j
        /\ \A i \in 1..Len(predictions_data) :
              LET entry == predictions_data[i]
                  label == Get(StoredFor(entry.k), "prediction")
              IN  /\ IsDict(entry.v)
                  /\ GetOrNull(entry.v, "prediction") = label
                  /\ runs >= 1 =>
                        /\ issued[i].uid = entry.k
                        /\ results[i] = KV(entry.k, TRUE)
                        /\ label = JInt(1) =>
                              issued[i].commands =
                                  <<Command("select", "INBOX", ""),
                                    Command("store", entry.k, "+FLAGS \\Deleted"),
                                    Command("expunge", "", "")>>
                        /\ label = JInt(-1) =>
                              issued[i].commands =
                                  <<Command("select", "INBOX", ""),
                                    Command("store", entry.k, "+X-GM-LABELS suspicious"),
                                    Command("store", entry.k, "-X-GM-LABELS \\Inbox")>>
                        /\ label = JInt(0) =>
                              issued[i].commands = <<Command("select", "INBOX", "")>>

\* A pass over the mapping loaded from an array of two uids, one Phishing
\* and one Suspicious, whose messages left INBOX.
C14_Witness ==
    /\ Len(UidItems) = 2
    /\ runs >= 1
    /\ Len(predictions_data) = 2
    /\ GetOrNull(predictions_data[1].v, "prediction") = JInt(1)
    /\ GetOrNull(predictions_data[2].v, "prediction") = JInt(-1)
    /\ {UidOf(predictions_data[1].k), UidOf(predictions_data[2].k)}
           \subseteq before.inbox \ mailbox.inbox
    /\ results[1].v /\ results[2].v

\* The keys a well-formed entry of the arrays is loaded under.
WellFormedIds == {"2", "email_2"}

\* C15: a malformed entry of the latest file is skipped: the well-formed
\* entry of the same 'results' array is in the mapping loaded.
C15_MalformedEntrySkipped ==
    (/\ Len(loaded_file.docs) = 1
     /\ loaded_file.docs[1] \in EntryDocs) =>
        \E i \in 1..Len(predictions_data) : predictions_data[i].k \in WellFormedIds

\* C16: while the oracle is not loaded, every batch given to
\* detect_phishing_batch fails with an error: the response carries no
\* verdict and no verdict file is written.
C16_NoOracleFailsFast ==
    (~model_loaded /\ request.kind = "batch") =>
        /\ response.status_code = 500
        /\ Verdicts = <<>>
        /\ json_files(files) = {}

\* The identifier of a record: its id, or the uid the extractor gave it.
Identifier(email) == IF "id" \in DOMAIN email THEN email.id ELSE email.uid

\* C17: a response has one verdict per record of the request, in the order
\* of the records, each with the identifier of its record as id, and equal
\* records with equal outputs of the oracle get equal labels wherever they
\* stand in the batch.
C17_OneVerdictPerRecord ==
    response.status_code = 200 =>
        /\ Len(Verdicts) = Len(request.emails)
        /\ \A i \in 1..Len(Verdicts) :
              Verdicts[i].id = Identifier(request.emails[i])
        /\ \A i, j \in 1..Len(Verdicts) :
              (/\ request.emails[i].subject = request.emails[j].subject
               /\ request.emails[i].body = request.emails[j].body
               /\ request.scores[i] = request.scores[j]) =>
                  Verdicts[i].prediction = Verdicts[j].prediction

\* C18: a run of the extractor that ends well has written min(N, M)
\* records, N the maximum count and M the number of messages of the listing:
\* the last min(N, M) identifiers of the listing, in its order.
C18_LastNOfListing ==
    (extraction.ran /\ extraction.exit_code = 0) =>
        LET N == extraction.NUM_EMAILS
            M == Len(extraction.mail_ids)
            n == IF N <= M THEN N ELSE M
        IN  /\ emails_json.exists
            /\ Len(emails_json.emails) = n
            /\ \A k \in 1..Len(emails_json.emails) :
                  k <= n => emails_json.emails[k].uid = extraction.mail_ids[M - n + k].uid

\* C19: a run in which connect, login, select, search or a fetch failed
\* ends with a nonzero exit code and leaves emails.json as it found it; and
\* a run that changes emails.json writes it whole, with one record for each
\* message selected.
C19_AllOrNothing ==
    extraction.ran =>
        /\ extraction.raised \in {"connect", "login", "select", "search", "fetch"} =>
              /\ extraction.exit_code # 0
              /\ emails_json = extraction.found
        /\ emails_json # extraction.found =>
              /\ emails_json.exists
              /\ emails_json.valid
              /\ Len(emails_json.emails) = Len(extraction.selected)
              /\ \A k \in 1..Len(extraction.selected) :
                    emails_json.emails[k].uid = extraction.selected[k].uid

\* C20: main of the driver returns 0 only when every step of the run went
\* well: the extractor ended with 0, the predictions were saved, labels.py
\* ended with 0 and created the labels, and the action service loaded
\* predictions and connected to the mail store.
C20_ZeroOnlyWhenAllStagesSucceed ==
    (driver.ran /\ driver.exit_code = 0) =>
        /\ driver.email_success
        /\ driver.stopped = ""
        /\ driver.labels.exit_code = 0
        /\ driver.labels.created
        /\ driver.actions.ran
        /\ driver.actions.predictions # <<>>
        /\ driver.actions.connected

\* C21: a run of the driver in which the extractor ended with 0, the
\* service was healthy and answered the request with 200 goes through every
\* step: save_predictions saved the verdicts and the action service was run.
C21_PipelineAdvances ==
    (/\ driver.ran
     /\ driver.email_success
     /\ driver.stopped \notin {"emails", "health", "predictions"}) =>
        /\ driver.stopped = ""
        /\ saved.returned
        /\ driver.actions.ran

\* C23: perform_action for a Phishing verdict on the UID u changes message u
\* only: every other message the pass found in INBOX is still there, with
\* the flags and labels it had, one that was already flagged \Deleted too.
C23_PhishingChangesOnlyTarget ==
    (/\ runs = 1
     /\ Len(predictions_data) = 1
     /\ IsDict(predictions_data[1].v)
     /\ GetOrNull(predictions_data[1].v, "prediction") = JInt(1)
     /\ results = <<KV(predictions_data[1].k, TRUE)>>) =>
        \A v \in before.inbox :
            StrOfInt(v) # predictions_data[1].k =>
                /\ v \in mailbox.inbox
                /\ v \in mailbox.deleted <=> v \in before.deleted
                /\ v \in mailbox.suspicious <=> v \in before.suspicious

\* The results of the response handed to save_predictions that carry a
\* 'uid' and a 'prediction', both not null.
Carrying ==
    LET results_list == results_list_of(saved.input)
    IN  IF ~IsList(results_list) THEN {}
        ELSE {i \in 1..Len(results_list.l) :
                 /\ IsDict(results_list.l[i])
                 /\ GetOrNull(results_list.l[i], "uid") # JNull
                 /\ GetOrNull(results_list.l[i], "prediction") # JNull}

\* C24: save_predictions returns True only with a file of at least one
\* line, one line per result carrying a 'uid' and a 'prediction'; when no
\* result carries both it returns False and writes no file.
C24_TrueOnlyWithVerdicts ==
    /\ saved.returned =>
          /\ saved.file \in files
          /\ Len(saved.file.docs) = Cardinality(Carrying)
          /\ Len(saved.file.docs) >= 1
    /\ (saved.input # JNull /\ Carrying = {}) =>
          /\ ~saved.returned
          /\ saved.file = NoFile

\* A folder of the name, compared without case, is among names.
ListedIn(names, label_name) == \E folder \in names : lower(folder) = lower(label_name)

\* C22: ensure_label_exists returns True without a create call for a label
\* that is listed, the names compared without case, and True after a create
\* that succeeded; a run of labels.py that follows a run that reported every
\* label as a success reports every label as a success and leaves the
\* folders as it found them.
C22_LabelCreationIdempotent ==
    (labels_run.ran /\ labels_run.run.connected) =>
        /\ \A i \in 1..Len(labels_run.run.reports) :
              LET report == labels_run.run.reports[i]
              IN  /\ ListedIn(labels_run.run.found, report.label) =>
                        report.returned /\ ~report.create
                  /\ (/\ ~ListedIn(labels_run.run.found, report.label)
                      /\ report.label \in folders) => report.returned
        /\ labels_run.again =>
              /\ labels_run.run.created
              /\ folders = labels_run.run.found

\* The index a --mailid of decimal digits names, -1 for any other mailid.
DecimalIndex(mailid) ==
    IF \E n \in UidNumbers \cup {0} : StrOfNat(n) = mailid
    THEN CHOOSE n \in UidNumbers \cup {0} : StrOfNat(n) = mailid
    ELSE -1

\* C25: imap_action.py acts on the message at the position mailid of the
\* listing when mailid is a decimal index below the number of messages, and
\* on the last message for any other mailid, whatever the action; on an
\* empty inbox it sends no command and ends with 103; a run in which an
\* IMAP call raised ends with 104.
C25_TargetAndExitCodes ==
    imap_run.ran =>
        LET ids == ids_of(imap_run.found.inbox)
            index == DecimalIndex(imap_run.mailid)
            reached == imap_run.raised \notin {"connect", "search"}
        IN  /\ (reached /\ ids # <<>>) =>
                  /\ imap_run.mail_id =
                        IF index >= 0 /\ index < Len(ids) THEN ids[index + 1]
                        ELSE ids[Len(ids)]
                  /\ \A i \in 1..Len(imap_run.commands) :
                        imap_run.commands[i].cmd \in {"store", "copy"} =>
                            imap_run.commands[i].target = StrOfInt(imap_run.mail_id)
            /\ (reached /\ ids = <<>>) =>
                  /\ imap_run.exit_code = 103
                  /\ imap_run.commands = <<>>
                  /\ mailbox = imap_run.found
            /\ imap_run.raised \in {"connect", "search", "command"} =>
                  imap_run.exit_code = 104

====
